---- MODULE Spec2Model ----
(***************************************************************************)
(* A model of dipy/core/dti.py: the design matrix, the tensor eigen        *)
(* decomposition, the scalar maps (ADC, FA), the weighted least squares    *)
(* fit and the tensor object's constructor.                                *)
(*                                                                         *)
(* Arrays are 1-based sequences (numpy index i is position i+1).  A 2-D    *)
(* array is a sequence of rows.  Numbers are integers; the array values    *)
(* the model draws are small integers, which float32 holds exactly.        *)
(***************************************************************************)
EXTENDS Integers, Sequences, FiniteSets, TLC

VARIABLES
    \* design_matrix(gtab, bval)
    pcD,        \* "call" | "done" | "error"
    gtab,       \* the gradient table, 3 rows of k columns
    bval,       \* the b-values, a 1-D array of length g
    B,          \* the returned matrix (g rows of 7), <<>> before the return
    diag,       \* TRUE once the two diagnostic lines were printed
    errD,       \* the exception raised, "" when none
    \* decompose_tensor(D, scale)
    pcT,        \* "call" | "done" | "error"
    D,          \* the six unique diffusivities (Dxx, Dyy, Dzz, Dxy, Dxz, Dyz)
    eigenvals,  \* what np.linalg.eig returned: the three eigenvalues
    eigenvecs,  \* what np.linalg.eig returned: eigenvecs[r][c], columns are vectors
    eig_params, \* the returned vector of 12, <<>> before the return
    \* tensor.calc_adc, tensor.calc_fa
    pcM,        \* "adc" | "fa" | "done"
    evals,      \* self.evals: one eigenvalue triple per voxel
    adc,        \* self.adc: one number per voxel, <<>> before it is set
    fa,         \* self.fa: one number per voxel, <<>> before it is set
    \* tensor.__init__ and WLS_fit
    entry,      \* the call made: "tensor" | "WLS_fit"
    pc,         \* "init" | "wls" | "loop" | "reassemble" | "done" | "error"
    dims,       \* data.shape of the array the caller passed
    data,       \* the caller's signal array, one row of g values per voxel (C order)
    data0,      \* the caller's signal array as it was when the call was made
    contiguous, \* whether the caller's array is C-contiguous (reshape gives a view)
    maskArg,    \* the caller's mask, one value per voxel of the mask; <<>> for None
    maskShape,  \* mask.shape of the caller's mask; <<>> for None
    thresh,     \* the thresh argument
    mask,       \* the local name mask of tensor.__init__ after line 70
    fitData,    \* the local name data of WLS_fit: the rows it works on
    isArray,    \* isinstance(data, np.ndarray) in WLS_fit
    aliased,    \* whether WLS_fit's data shares memory with the caller's array
    logArgs,    \* every value np.log has been applied to
    designBuilt,\* TRUE once design_matrix was called, line 174
    iLoop,      \* the loop index i of line 193 (rows solved so far)
    eig_decomp, \* WLS_fit's result rows, <<>> before line 188
    volume,     \* the reassembled eigen result per voxel, <<>> before line 91
    attrs,      \* the attributes set on the tensor object
    err         \* the exception raised, "" when none

varsD == <<pcD, gtab, bval, B, diag, errD>>
varsT == <<pcT, D, eigenvals, eigenvecs, eig_params>>
varsM == <<pcM, evals, adc, fa>>

varsIn == <<entry, dims, data0, contiguous, maskArg, maskShape, thresh>>
varsP == <<varsIn, pc, data, mask, fitData, isArray, aliased, logArgs,
           designBuilt, iLoop, eig_decomp, volume, attrs, err>>

vars == <<varsD, varsT, varsM, varsP>>

----------------------------------------------------------------------------
(* Bounds of the model. *)

\* the largest number of b-values / gradient-table columns drawn
MaxG == 2

\* the diagonal tensor components drawn lie in -MaxEntry..MaxEntry
MaxEntry == 2

\* the eigenvalues of the volumes given to calc_adc and calc_fa lie in 0..MaxEv
MaxEv == 2

\* the largest number of voxels of those volumes
MaxVoxM == 2

\* the largest number of voxels of a signal volume given to the fit
MaxVox == 2

\* the largest number of gradients (4th dimension) of such a volume
MaxChan == 2

----------------------------------------------------------------------------
(* numpy helpers *)

Range(s) == {s[i] : i \in 1..Len(s)}

\* the j-th smallest element of a finite set of integers
RECURSIVE SortedSeq(_)
SortedSeq(S) ==
    IF S = {} THEN <<>>
    ELSE LET m == CHOOSE x \in S : \A y \in S : x <= y
         IN  <<m>> \o SortedSeq(S \ {m})

\* np.where(b > 0)[0]: the indices, ascending, of the positive entries
WherePositive(b) == SortedSeq({i \in 1..Len(b) : b[i] > 0})

\* numpy's broadcast rule for an assignment: the value's shape vs, aligned to
\* the right of the target's shape ts, must be 1 or equal on every axis
BroadcastableTo(vs, ts) ==
    /\ Len(vs) <= Len(ts)
    /\ \A i \in 1..Len(vs) :
          vs[Len(vs) - i + 1] \in {1, ts[Len(ts) - i + 1]}

\* the shape of G[:, np.where(bval > 0)]: the index is the 1-tuple np.where
\* returns, which numpy converts to an index array of shape (1, n)
ReconstructIndexShape(nrows, b) == <<nrows, 1, Len(WherePositive(b))>>

----------------------------------------------------------------------------
(* design_matrix *)

\* the six raw monomials and the constant of one row: lines 305-311
RawRow(G, b, i) ==
    << G[1][i] * G[1][i] * 1 * b[i],
       G[2][i] * G[2][i] * 1 * b[i],
       G[3][i] * G[3][i] * 1 * b[i],
       G[1][i] * G[2][i] * 2 * b[i],
       G[1][i] * G[3][i] * 2 * b[i],
       G[2][i] * G[3][i] * 2 * b[i],
       1 >>

\* a faulty variant of ReturnedRow: the matrix is returned without the negation
ReturnedRowNotNegated(row) == row

\* return -B: every entry of the row negated, line 314
ReturnedRow(row) == [c \in 1..7 |-> 0 - row[c]]

\* G after `G = np.zeros((3, np.size(bval))); G[:, np.where(bval > 0)] = gtab`,
\* when the assignment broadcasts: entry (r, 1, j) of the indexed block
\* receives the value's entry broadcast from shape (1, 3, k).  (For a table
\* of 3 rows it never does: the block's middle axis has length 1.)
ReconstructedG(gt, b) ==
    LET idx == WherePositive(b)
        k   == Len(gt[1])
    IN  [r \in 1..3 |->
           [c \in 1..Len(b) |->
              IF \E j \in 1..Len(idx) : idx[j] = c
              THEN LET j == CHOOSE j \in 1..Len(idx) : idx[j] = c
                   IN  gt[1][IF k = 1 THEN 1 ELSE j]
              ELSE 0]]

\* the whole call: the result matrix, whether the diagnostic was printed and
\* the exception raised
design_matrix(gt, b) ==
    LET mismatch == Len(gt[1]) # Len(b)
        canAssign == BroadcastableTo(<<Len(gt), Len(gt[1])>>,
                                     ReconstructIndexShape(3, b))
        G == IF mismatch THEN ReconstructedG(gt, b) ELSE gt
    IN  IF mismatch /\ ~canAssign
        THEN [B |-> <<>>, diag |-> TRUE, err |-> "ValueError"]
        ELSE [B |-> [i \in 1..Len(b) |-> ReturnedRow(RawRow(G, b, i))],
              diag |-> mismatch, err |-> ""]

----------------------------------------------------------------------------
(* The specification of design_matrix: any table of 1..MaxG columns with    *)
(* components in -1..1 and any 1..MaxG b-values in 0..2.                    *)

GradValues == {-1, 0, 1}
BValues == {0, 1, 2}

Tables == UNION {[1..3 -> [1..k -> GradValues]] : k \in 1..MaxG}
BVectors == UNION {[1..g -> BValues] : g \in 1..MaxG}

IdleT ==
    /\ pcT = "idle"
    /\ D = <<>>
    /\ eigenvals = <<>>
    /\ eigenvecs = <<>>
    /\ eig_params = <<>>

IdleM ==
    /\ pcM = "idle"
    /\ evals = <<>>
    /\ adc = <<>>
    /\ fa = <<>>

IdleP ==
    /\ entry = "none"
    /\ pc = "idle"
    /\ dims = <<>>
    /\ data = <<>>
    /\ data0 = <<>>
    /\ contiguous = TRUE
    /\ maskArg = <<>>
    /\ maskShape = <<>>
    /\ thresh = 0
    /\ mask = <<>>
    /\ fitData = <<>>
    /\ isArray = TRUE
    /\ aliased = FALSE
    /\ logArgs = {}
    /\ designBuilt = FALSE
    /\ iLoop = 0
    /\ eig_decomp = <<>>
    /\ volume = <<>>
    /\ attrs = {}
    /\ err = ""

InitD ==
    /\ IdleT
    /\ IdleM
    /\ IdleP
    /\ pcD = "call"
    /\ gtab \in Tables
    /\ bval \in BVectors
    /\ B = <<>>
    /\ diag = FALSE
    /\ errD = ""

DesignMatrixCall ==
    /\ pcD = "call"
    /\ LET r == design_matrix(gtab, bval)
       IN  /\ B' = r.B
           /\ diag' = r.diag
           /\ errD' = r.err
           /\ pcD' = IF r.err = "" THEN "done" ELSE "error"
    /\ UNCHANGED <<gtab, bval, varsT, varsM, varsP>>

NextD == DesignMatrixCall

SpecDesign == InitD /\ [][NextD]_vars

----------------------------------------------------------------------------
(* decompose_tensor *)

\* the symmetric 3x3 matrix of lines 245-254
TensorOf(d) ==
    << <<d[1], d[4], d[5]>>,
       <<d[4], d[2], d[6]>>,
       <<d[5], d[6], d[3]>> >>

MatVec(M, v) == [r \in 1..3 |-> M[r][1] * v[1] + M[r][2] * v[2] + M[r][3] * v[3]]

Column(M, c) == <<M[1][c], M[2][c], M[3][c]>>

Det3(M) ==
      M[1][1] * (M[2][2] * M[3][3] - M[2][3] * M[3][2])
    - M[1][2] * (M[2][1] * M[3][3] - M[2][3] * M[3][1])
    + M[1][3] * (M[2][1] * M[3][2] - M[2][2] * M[3][1])

Perms3 == {p \in [1..3 -> 1..3] : {p[1], p[2], p[3]} = 1..3}

\* The directions an eigenvector may have in the model: the non-zero vectors
\* with components in -1..1, one of each pair v, -v (the first non-zero
\* component is positive).  A direction stands for the unit vector along it
\* (the normalisation factor is left out).
Directions ==
    {v \in [1..3 -> {-1, 0, 1}] :
        \/ v[1] = 1
        \/ v[1] = 0 /\ v[2] = 1
        \/ v[1] = 0 /\ v[2] = 0 /\ v[3] = 1}

\* the eigenvalues a drawn tensor can have
EigenRange == (0 - MaxEntry - 2)..(MaxEntry + 2)

EigenPairs(T) ==
    {pr \in EigenRange \X Directions :
        MatVec(T, pr[2]) = [r \in 1..3 |-> pr[1] * pr[2][r]]}

\* np.linalg.eig(tensor), line 257: any three eigenpairs, in any order, whose
\* vectors are linearly independent
EigOutcomes(T) ==
    LET P == EigenPairs(T)
        Triples == {t \in P \X P \X P :
                       Det3([r \in 1..3 |-> [c \in 1..3 |-> t[c][2][r]]]) # 0}
    IN  {[w |-> [c \in 1..3 |-> t[c][1]],
          v |-> [r \in 1..3 |-> [c \in 1..3 |-> t[c][2][r]]]] : t \in Triples}

\* w.argsort(): an index order that makes w ascending (numpy's default sort
\* leaves the order of equal values open)
ArgsortOutcomes(w) == {p \in Perms3 : w[p[1]] <= w[p[2]] /\ w[p[2]] <= w[p[3]]}

Reversed(s) == [i \in 1..Len(s) |-> s[Len(s) - i + 1]]

\* eigenvals.sort(): the values ascending, line 264
SortedAscending(w) ==
    LET p == CHOOSE p \in Perms3 : p \in ArgsortOutcomes(w)
    IN  [i \in 1..3 |-> w[p[i]]]

\* a faulty variant of ReorderColumns: the reversal [::-1] of the argsort is
\* forgotten
ReorderColumnsAscending(v, p) == [r \in 1..3 |-> [c \in 1..3 |-> v[r][p[c]]]]

\* eigenvecs[:, eigenvals.argsort()[::-1]], line 263; p is the argsort
ReorderColumns(v, p) ==
    LET q == Reversed(p)
    IN  [r \in 1..3 |-> [c \in 1..3 |-> v[r][q[c]]]]

\* a faulty variant of ClampNegative: negative eigenvalues are kept
ClampNegativeMissing(w) == w

\* eigenvals[eigenvals < 0] = 0, line 268
ClampNegative(w) == [i \in 1..Len(w) |-> IF w[i] < 0 THEN 0 ELSE w[i]]

\* np.concatenate((eigenvals, eigenvecs.T.flat[:])) * scale, line 272: the
\* rows of the transpose, one after the other, are the columns of eigenvecs
PackParams(w, v, scale) ==
    [i \in 1..12 |->
        scale * (IF i <= 3 THEN w[i]
                 ELSE v[((i - 4) % 3) + 1][((i - 4) \div 3) + 1])]

\* lines 259-274, given what the library calls returned: o from
\* np.linalg.eig, p from argsort
decompose_tensor(o, p, scale) ==
    IF Len(o.w) # 3
    THEN [err |-> "ValueError", params |-> <<>>]
    ELSE [err |-> "",
          params |-> PackParams(ClampNegative(Reversed(SortedAscending(o.w))),
                                ReorderColumns(o.v, p), scale)]

----------------------------------------------------------------------------
(* The specification of decompose_tensor: every tensor with diagonal in    *)
(* -MaxEntry..MaxEntry and off-diagonal in -1..1 that has three            *)
(* independent eigenvectors among Directions, called as WLS_fit calls it   *)
(* (scale=1, line 213).                                                    *)

DiagEntries == (0 - MaxEntry)..MaxEntry
OffDiagEntries == {-1, 0, 1}

Tensors ==
    {d \in [1..6 -> DiagEntries \cup OffDiagEntries] :
        /\ \A i \in 4..6 : d[i] \in OffDiagEntries
        /\ EigenPairs(TensorOf(d)) # {}
        /\ EigOutcomes(TensorOf(d)) # {}}

IdleD ==
    /\ pcD = "idle"
    /\ gtab = <<>>
    /\ bval = <<>>
    /\ B = <<>>
    /\ diag = FALSE
    /\ errD = ""

InitT ==
    /\ IdleD
    /\ IdleM
    /\ IdleP
    /\ pcT = "call"
    /\ D \in Tensors
    /\ eigenvals = <<>>
    /\ eigenvecs = <<>>
    /\ eig_params = <<>>

DecomposeTensorCall ==
    /\ pcT = "call"
    /\ \E o \in EigOutcomes(TensorOf(D)) :
       \E p \in ArgsortOutcomes(o.w) :
          LET r == decompose_tensor(o, p, 1)
          IN  /\ eigenvals' = o.w
              /\ eigenvecs' = o.v
              /\ eig_params' = r.params
              /\ pcT' = IF r.err = "" THEN "done" ELSE "error"
    /\ UNCHANGED <<D, varsD, varsM, varsP>>

NextT == DecomposeTensorCall

SpecDecompose == InitT /\ [][NextT]_vars

----------------------------------------------------------------------------
(* Floating-point values of the scalar maps.  A value is an exact rational *)
(* [t |-> "rat", n, d] in lowest terms with d > 0, the non-negative square *)
(* root of a positive rational [t |-> "sqrt", n, d], or [t |-> "nan"]      *)
(* (0/0).  Rounding is left out.                                           *)

RECURSIVE Gcd(_, _)
Gcd(a, b) == IF b = 0 THEN a ELSE Gcd(b, a % b)

Abs(x) == IF x < 0 THEN 0 - x ELSE x

NaN == [t |-> "nan"]

Rat(n, d) ==
    LET g == Gcd(Abs(n), Abs(d))
        sg == IF d < 0 THEN 0 - 1 ELSE 1
    IN  [t |-> "rat", n |-> sg * (n \div g), d |-> sg * (d \div g)]

FromInt(x) == Rat(x, 1)

FAdd(a, b) ==
    IF a.t # "rat" \/ b.t # "rat" THEN NaN
    ELSE Rat(a.n * b.d + b.n * a.d, a.d * b.d)

FSub(a, b) ==
    IF a.t # "rat" \/ b.t # "rat" THEN NaN
    ELSE Rat(a.n * b.d - b.n * a.d, a.d * b.d)

FMul(a, b) ==
    IF a.t # "rat" \/ b.t # "rat" THEN NaN
    ELSE Rat(a.n * b.n, a.d * b.d)

\* IEEE division: 0/0 is NaN (a non-zero value over 0 is an infinity, which
\* the maps never produce: the divisor is a sum of squares that is 0 only
\* when the dividend is 0 too)
FDiv(a, b) ==
    IF a.t # "rat" \/ b.t # "rat" THEN NaN
    ELSE IF b.n = 0 THEN NaN
    ELSE Rat(a.n * b.d, a.d * b.n)

\* np.sqrt
FSqrt(a) ==
    IF a.t # "rat" \/ a.n < 0 THEN NaN
    ELSE IF a.n = 0 THEN FromInt(0)
    ELSE [t |-> "sqrt", n |-> a.n, d |-> a.d]

FSquare(a) == FMul(a, a)

----------------------------------------------------------------------------
(* calc_adc, calc_fa *)

\* lines 106-108, for one voxel's eigenvalue triple
calc_adc(ev) ==
    FDiv(FAdd(FAdd(FromInt(ev[1]), FromInt(ev[2])), FromInt(ev[3])), FromInt(3))

\* a faulty variant of ZeroWhereNoDiffusion: the voxels with ss_ev == 0 are
\* left as computed
ZeroWhereNoDiffusionMissing(ss_ev, x) == x

\* fa[ss_ev == 0] = 0, line 119, for one voxel
ZeroWhereNoDiffusion(ss_ev, x) == IF ss_ev = FromInt(0) THEN FromInt(0) ELSE x

\* lines 110-120, for one voxel's eigenvalue triple
calc_fa(ev) ==
    LET a == calc_adc(ev)
        ev1 == FromInt(ev[1])
        ev2 == FromInt(ev[2])
        ev3 == FromInt(ev[3])
        ss_ev == FAdd(FAdd(FSquare(ev1), FSquare(ev2)), FSquare(ev3))
        dev == FAdd(FAdd(FSquare(FSub(ev1, a)), FSquare(FSub(ev2, a))),
                    FSquare(FSub(ev3, a)))
        x == FSqrt(FDiv(FMul(Rat(3, 2), dev), ss_ev))
    IN  ZeroWhereNoDiffusion(ss_ev, x)

----------------------------------------------------------------------------
(* The specification of the scalar maps: a volume of 1..MaxVoxM voxels,    *)
(* each holding what decompose_tensor returns or the fill of an excluded   *)
(* voxel: three descending eigenvalues in 0..MaxEv.                        *)

EigenTriples ==
    {ev \in [1..3 -> 0..MaxEv] : ev[1] >= ev[2] /\ ev[2] >= ev[3]}

EigenVolumes == UNION {[1..n -> EigenTriples] : n \in 1..MaxVoxM}

InitM ==
    /\ IdleD
    /\ IdleT
    /\ IdleP
    /\ pcM = "adc"
    /\ evals \in EigenVolumes
    /\ adc = <<>>
    /\ fa = <<>>

\* self.adc = self.calc_adc(), line 97
CalcAdc ==
    /\ pcM = "adc"
    /\ adc' = [v \in 1..Len(evals) |-> calc_adc(evals[v])]
    /\ pcM' = "fa"
    /\ UNCHANGED <<evals, fa, varsD, varsT, varsP>>

\* self.fa = self.calc_fa(), line 98
CalcFa ==
    /\ pcM = "fa"
    /\ fa' = [v \in 1..Len(evals) |-> calc_fa(evals[v])]
    /\ pcM' = "done"
    /\ UNCHANGED <<evals, adc, varsD, varsT, varsP>>

NextM == CalcAdc \/ CalcFa

SpecMetrics == InitM /\ [][NextM]_vars

----------------------------------------------------------------------------
(* tensor.__init__ and WLS_fit.                                            *)
(*                                                                         *)
(* A signal array is a sequence of voxel rows in C order, so the reshapes  *)
(* of lines 154 and 220 keep the rows.  The numerical kernels (np.dot,     *)
(* np.linalg.pinv, np.exp, decompose_tensor) are not evaluated: the eigen  *)
(* result of a solve is the term [w, y, src] naming the signal values the  *)
(* weights were derived from, the signal values whose logarithm is the     *)
(* right-hand side, and the cells (row, column) of the working array the   *)
(* right-hand side was read from.  The design matrix is the one of the g   *)
(* gradients of the volume (gtab of g columns, g b-values).                *)

\* thresh=5 in the signature of tensor.__init__, line 67
DefaultThresh == 5

Prod(shape) ==
    IF Len(shape) = 0 THEN 1
    ELSE IF Len(shape) = 2 THEN shape[1] * shape[2]
    ELSE IF Len(shape) = 3 THEN shape[1] * shape[2] * shape[3]
    ELSE shape[1] * shape[2] * shape[3] * shape[4]

\* dims[0:3]
SpatialOf(ds) == <<ds[1], ds[2], ds[3]>>

\* the number of gradients: the last entry of the shape
NChan == dims[Len(dims)]

ColumnOf(rows, c) == [v \in 1..Len(rows) |-> rows[v][c]]

AllValues(rows) == {rows[v][c] : v \in 1..Len(rows), c \in 1..NChan}

\* mask = data[:,:,:,0]; mask[mask<thresh] = 0, lines 69-70: mask is a view
\* of the caller's array, so the assignment writes channel 0 of the array
ThresholdB0(rows, th) ==
    [v \in 1..Len(rows) |->
        [c \in 1..Len(rows[v]) |->
            IF c = 1 /\ rows[v][c] < th THEN 0 ELSE rows[v][c]]]

\* a faulty variant of ShapeMismatch: the number of voxels is compared, not
\* the shape
SizeMismatch(ds, ms) == ds[1] * ds[2] * ds[3] # Prod(ms)

\* dims[0:3] != mask.shape, line 73
ShapeMismatch(ds, ms) == SpatialOf(ds) # ms

\* MaskedView(mask4d.reshape(...), data[mask4d>0]), line 86: the compact list
\* of the rows of the voxels whose mask value is > 0, in index order
MaskedViewRows(m, rows) ==
    LET idx == WherePositive(m)
    IN  [k \in 1..Len(idx) |-> rows[idx[k]]]

\* data[data <= 0] = 1, line 160
ClampNonPositive(rows) ==
    [v \in 1..Len(rows) |->
        [c \in 1..Len(rows[v]) |-> IF rows[v][c] <= 0 THEN 1 ELSE rows[v][c]]]

\* np.zeros: a row of eig_decomp that no solve has written, line 188
ZeroRow == [w |-> <<>>, y |-> <<>>, src |-> {}]

\* one pass of the loop body, lines 206-213, for loop index i = k - 1 on the
\* N rows of g values: the exception raised, the values np.log was applied
\* to, and the eigen result written to eig_decomp[i,:]
VoxelSolve(rows, k, g) ==
    LET N == Len(rows)
        col == ColumnOf(rows, k)
        L == IF N = 1 THEN g ELSE N
    IN  IF k > g
        THEN [err |-> "IndexError", logged |-> {}, row |-> ZeroRow]
        ELSE IF ~(N = g \/ N = 1 \/ g = 1)
        THEN [err |-> "ValueError: operands could not be broadcast together",
              logged |-> Range(col), row |-> ZeroRow]
        ELSE IF L # g
        THEN [err |-> "ValueError: matrices are not aligned",
              logged |-> Range(col), row |-> ZeroRow]
        ELSE [err |-> "", logged |-> Range(col),
              row |-> [w |-> rows[k],
                       y |-> [c \in 1..g |-> col[IF N = 1 THEN 1 ELSE c]],
                       src |-> {<<v, k>> : v \in 1..N}]]

\* MaskedView(mask, eig_decomp), line 91: the compact rows put back at the
\* voxels whose mask value is > 0, the other voxels filled with zeros
MaskedViewFilled(m, rows) ==
    LET idx == WherePositive(m)
    IN  [v \in 1..Len(m) |->
            IF m[v] > 0
            THEN rows[CHOOSE k \in 1..Len(idx) : idx[k] = v]
            ELSE ZeroRow]

----------------------------------------------------------------------------
(* The specification of the fit: tensor(data, gtab, bval, mask, thresh) on *)
(* a 4-D array, and WLS_fit(data, gtab, bval) on a 4-D or 2-D array, for   *)
(* volumes of up to MaxVox voxels and MaxChan gradients.                   *)

\* signal values below, at and above the thresholds, and a non-positive one
DataValues == {0, 3, 7}

MaskValues == {0, 1}

ThreshValues == {0, DefaultThresh}

SpatialShapes ==
    {sh \in (1..MaxVox) \X (1..MaxVox) \X {1} : sh[1] * sh[2] <= MaxVox}

Shapes4D == {sh \o <<g>> : sh \in SpatialShapes, g \in 1..MaxChan}

Shapes2D == (1..MaxVox) \X (1..MaxChan)

SignalArrays(shape) ==
    [1..(Prod(shape) \div shape[Len(shape)]) -> [1..shape[Len(shape)] -> DataValues]]

InitLocals ==
    /\ data = data0
    /\ mask = <<>>
    /\ fitData = <<>>
    /\ aliased = FALSE
    /\ logArgs = {}
    /\ designBuilt = FALSE
    /\ iLoop = 0
    /\ eig_decomp = <<>>
    /\ volume = <<>>
    /\ attrs = {}
    /\ err = ""

\* tensor(data, gtab, bval) and tensor(data, gtab, bval, thresh=th)
InitTensorNoMask ==
    /\ entry = "tensor"
    /\ pc = "init"
    /\ dims \in Shapes4D
    /\ data0 \in SignalArrays(dims)
    /\ contiguous = TRUE
    /\ maskArg = <<>>
    /\ maskShape = <<>>
    /\ thresh \in ThreshValues
    /\ isArray = FALSE

\* tensor(data, gtab, bval, mask=m)
InitTensorMask ==
    /\ entry = "tensor"
    /\ pc = "init"
    /\ dims \in Shapes4D
    /\ data0 \in SignalArrays(dims)
    /\ contiguous = TRUE
    /\ maskShape \in SpatialShapes
    /\ maskArg \in [1..Prod(maskShape) -> MaskValues]
    /\ thresh = DefaultThresh
    /\ isArray = FALSE

\* WLS_fit(data, gtab, bval) on a plain array
InitWLS ==
    /\ entry = "WLS_fit"
    /\ pc = "wls"
    /\ dims \in Shapes4D \cup Shapes2D
    /\ data0 \in SignalArrays(dims)
    /\ contiguous \in (IF Len(dims) = 4 THEN BOOLEAN ELSE {TRUE})
    /\ maskArg = <<>>
    /\ maskShape = <<>>
    /\ thresh = DefaultThresh
    /\ isArray = TRUE

Init ==
    /\ IdleD
    /\ IdleT
    /\ IdleM
    /\ (InitTensorNoMask \/ InitTensorMask \/ InitWLS)
    /\ InitLocals

\* tensor.__init__, lines 68-86: the default mask, the shape check, the
\* masked view of the data
TensorInit ==
    /\ entry = "tensor"
    /\ pc = "init"
    /\ LET noMask == maskShape = <<>>
           d1 == IF noMask THEN ThresholdB0(data, thresh) ELSE data
           m  == IF noMask THEN ColumnOf(d1, 1) ELSE maskArg
           ms == IF noMask THEN SpatialOf(dims) ELSE maskShape
       IN  /\ data' = d1
           /\ mask' = m
           /\ IF ShapeMismatch(dims, ms)
              THEN /\ pc' = "error"
                   /\ err' = "ValueError: Data image and mask MUST have same 3D volume shape!"
                   /\ UNCHANGED fitData
              ELSE /\ pc' = "wls"
                   /\ err' = ""
                   /\ fitData' = MaskedViewRows(m, d1)
    /\ UNCHANGED <<varsIn, isArray, aliased, logArgs, designBuilt, iLoop,
                   eig_decomp, volume, attrs, varsD, varsT, varsM>>

\* WLS_fit, lines 147-191: the reshape, the clamp and the logarithm, the
\* design matrix, the unweighted regression, the zeroed result
WLSPrepare ==
    /\ pc = "wls"
    /\ LET shares == isArray /\ (IF Len(dims) = 4 THEN contiguous ELSE TRUE)
           rows == IF isArray THEN data ELSE fitData
           kept == IF isArray THEN ClampNonPositive(rows) ELSE rows
       IN  /\ fitData' = kept
           /\ aliased' = shares
           /\ data' = IF shares THEN kept ELSE data
           /\ logArgs' = logArgs \cup AllValues(kept)
           /\ eig_decomp' = [k \in 1..Len(kept) |-> ZeroRow]
    /\ designBuilt' = TRUE
    /\ iLoop' = 0
    /\ pc' = "loop"
    /\ UNCHANGED <<varsIn, mask, isArray, volume, attrs, err, varsD, varsT, varsM>>

\* WLS_fit, lines 193-213: one pass of the loop
WLSVoxel ==
    /\ pc = "loop"
    /\ iLoop < Len(fitData)
    /\ LET r == VoxelSolve(fitData, iLoop + 1, NChan)
       IN  /\ logArgs' = logArgs \cup r.logged
           /\ err' = r.err
           /\ IF r.err # ""
              THEN /\ pc' = "error"
                   /\ UNCHANGED <<iLoop, eig_decomp>>
              ELSE /\ pc' = "loop"
                   /\ iLoop' = iLoop + 1
                   /\ eig_decomp' = [eig_decomp EXCEPT ![iLoop + 1] = r.row]
    /\ UNCHANGED <<varsIn, data, mask, fitData, isArray, aliased, designBuilt,
                   volume, attrs, varsD, varsT, varsM>>

\* WLS_fit, lines 215-228: the loop is over, the result is returned
WLSReturn ==
    /\ pc = "loop"
    /\ iLoop = Len(fitData)
    /\ pc' = IF entry = "tensor" THEN "reassemble" ELSE "done"
    /\ volume' = IF entry = "tensor" THEN volume ELSE eig_decomp
    /\ UNCHANGED <<varsIn, data, mask, fitData, isArray, aliased, logArgs,
                   designBuilt, iLoop, eig_decomp, attrs, err,
                   varsD, varsT, varsM>>

\* tensor.__init__, lines 90-98: the mask reshaped to the data's shape, the
\* masked view of the result, the attributes
TensorReassemble ==
    /\ pc = "reassemble"
    /\ IF Prod(dims) # Len(mask)
       THEN /\ pc' = "error"
            /\ err' = "ValueError: total size of new array must be unchanged"
            /\ UNCHANGED <<volume, attrs>>
       ELSE /\ pc' = "done"
            /\ err' = ""
            /\ volume' = MaskedViewFilled(mask, eig_decomp)
            /\ attrs' = {"evals", "evecs", "prime_evec", "adc", "fa"}
    /\ UNCHANGED <<varsIn, data, mask, fitData, isArray, aliased, logArgs,
                   designBuilt, iLoop, eig_decomp, varsD, varsT, varsM>>

Next ==
    \/ TensorInit
    \/ WLSPrepare
    \/ WLSVoxel
    \/ WLSReturn
    \/ TensorReassemble

Spec == Init /\ [][Next]_vars

----------------------------------------------------------------------------
(* Claims about design_matrix, checked under SpecDesign. *)

EqualLength == Len(gtab[1]) = Len(bval)

\* the six monomials of row i of the given table, negated
NegatedMonomialsAt(i) ==
    /\ B[i][1] = 0 - gtab[1][i] * gtab[1][i] * bval[i]
    /\ B[i][2] = 0 - gtab[2][i] * gtab[2][i] * bval[i]
    /\ B[i][3] = 0 - gtab[3][i] * gtab[3][i] * bval[i]
    /\ B[i][4] = 0 - 2 * gtab[1][i] * gtab[2][i] * bval[i]
    /\ B[i][5] = 0 - 2 * gtab[1][i] * gtab[3][i] * bval[i]
    /\ B[i][6] = 0 - 2 * gtab[2][i] * gtab[3][i] * bval[i]

\* C1, as amended: for a gradient table and a b-value vector of equal length
\* g the call returns a matrix of g rows and 7 columns whose first six
\* columns are the negated monomials and whose 7th column is -1 in every row.
C1_DesignMatrixNegated ==
    (pcD # "call" /\ EqualLength) =>
        /\ pcD = "done"
        /\ Len(B) = Len(bval)
        /\ \A i \in 1..Len(B) :
              /\ Len(B[i]) = 7
              /\ B[i][7] = 0 - 1
              /\ NegatedMonomialsAt(i)

\* C1 as stated: the same, with the 7th column exactly 1 in every row.
C1_SeventhColumnOne ==
    (pcD # "call" /\ EqualLength) =>
        /\ pcD = "done"
        /\ Len(B) = Len(bval)
        /\ \A i \in 1..Len(B) :
              /\ Len(B[i]) = 7
              /\ B[i][7] = 1
              /\ NegatedMonomialsAt(i)

\* a returned matrix of two rows with a non-zero square and cross monomial
C1_Witness ==
    /\ pcD = "done"
    /\ EqualLength
    /\ Len(B) = 2
    /\ B[1][4] > 0
    /\ B[2][1] < 0

\* the zero-padded table of the claim: b-value 0 gives the zero direction,
\* the k-th positive b-value gives column k of the given table
ZeroPaddedTable ==
    [r \in 1..3 |->
        [c \in 1..Len(bval) |->
            IF bval[c] > 0
            THEN gtab[r][Cardinality({j \in 1..c : bval[j] > 0})]
            ELSE 0]]

\* C9: with fewer table columns than b-values, and as many positive b-values
\* as table columns, the call prints the diagnostic, does not fail, and
\* returns the matrix built from the zero-padded table.
C9_ReconstructionSucceeds ==
    (/\ pcD # "call"
     /\ Len(gtab[1]) < Len(bval)
     /\ Cardinality({j \in 1..Len(bval) : bval[j] > 0}) = Len(gtab[1])) =>
        /\ diag
        /\ pcD = "done"
        /\ Len(B) = Len(bval)
        /\ \A i \in 1..Len(B) :
              \A c \in 1..6 : B[i][c] = 0 - RawRow(ZeroPaddedTable, bval, i)[c]

----------------------------------------------------------------------------
(* Claims about decompose_tensor, checked under SpecDecompose. *)

ClampedAtZero(x) == IF x < 0 THEN 0 ELSE x

\* C5: the eigenvalues in positions 0..2 are descending and >= 0, and are
\* the library's eigenvalues permuted and then clamped: a negative one
\* appears as 0, a non-negative one unchanged.
C5_EigenvaluesSortedClamped ==
    pcT = "done" =>
        /\ eig_params[1] >= eig_params[2]
        /\ eig_params[2] >= eig_params[3]
        /\ eig_params[3] >= 0
        /\ \E q \in Perms3 :
              \A k \in 1..3 : eig_params[k] = ClampedAtZero(eigenvals[q[k]])

\* the library returned a negative, a zero-or-positive and a larger
\* eigenvalue, not in descending order
C5_Witness ==
    /\ pcT = "done"
    /\ eigenvals[1] < 0
    /\ eigenvals[2] > eigenvals[3]
    /\ eigenvals[3] > 0
    /\ eig_params[3] = 0

\* the vector in positions 3k..3k+2 (k = 1..3)
OutputVector(k) == <<eig_params[3 * k + 1], eig_params[3 * k + 2], eig_params[3 * k + 3]>>

\* C8: positions 3..5, 6..8, 9..11 hold the eigenvectors of the eigenvalues
\* in positions 0, 1, 2: one permutation both sorts the library's
\* eigenvalues descending and orders the eigenvector columns, and each
\* output vector is an eigenvector of the tensor for that eigenvalue.
C8_EigenvectorsFollowEigenvalues ==
    pcT = "done" =>
        \E q \in Perms3 :
            /\ eigenvals[q[1]] >= eigenvals[q[2]]
            /\ eigenvals[q[2]] >= eigenvals[q[3]]
            /\ \A k \in 1..3 :
                  /\ OutputVector(k) = Column(eigenvecs, q[k])
                  /\ eig_params[k] = ClampedAtZero(eigenvals[q[k]])
                  /\ MatVec(TensorOf(D), OutputVector(k))
                        = [r \in 1..3 |-> eigenvals[q[k]] * OutputVector(k)[r]]

\* two equal eigenvalues and a negative one that was clamped, returned by
\* the library in an order that is not descending
C8_Witness ==
    /\ pcT = "done"
    /\ eigenvals[1] < 0
    /\ eigenvals[2] = eigenvals[3]
    /\ eigenvals[2] > 0
    /\ eig_params[3] = 0
    /\ D[4] # 0

----------------------------------------------------------------------------
(* Claims about calc_adc and calc_fa, checked under SpecMetrics. *)

SumOf(ev) == ev[1] + ev[2] + ev[3]
SumSquares(ev) == ev[1] * ev[1] + ev[2] * ev[2] + ev[3] * ev[3]

\* 9 * ((l1-ADC)^2 + (l2-ADC)^2 + (l3-ADC)^2), with ADC = (l1+l2+l3)/3
NineDeviations(ev) ==
      (3 * ev[1] - SumOf(ev)) * (3 * ev[1] - SumOf(ev))
    + (3 * ev[2] - SumOf(ev)) * (3 * ev[2] - SumOf(ev))
    + (3 * ev[3] - SumOf(ev)) * (3 * ev[3] - SumOf(ev))

\* C6: ADC is (l1+l2+l3)/3 in every voxel; FA is exactly 0 (a number, not
\* NaN) where l1^2+l2^2+l3^2 = 0, and elsewhere the non-negative number whose
\* square is 1.5 * sum of squared deviations / sum of squares, that is
\* FA^2 * 6 * (l1^2+l2^2+l3^2) = 9 * sum of squared deviations.
C6_ScalarMaps ==
    pcM = "done" =>
        \A v \in 1..Len(evals) :
            /\ adc[v].t = "rat"
            /\ adc[v].d > 0
            /\ 3 * adc[v].n = adc[v].d * SumOf(evals[v])
            /\ SumSquares(evals[v]) = 0 => fa[v] = [t |-> "rat", n |-> 0, d |-> 1]
            /\ SumSquares(evals[v]) # 0 =>
                  /\ fa[v].t \in {"rat", "sqrt"}
                  /\ fa[v].d > 0
                  /\ fa[v].n >= 0
                  /\ fa[v].t = "rat" => fa[v].n = 0
                  /\ fa[v].n * 6 * SumSquares(evals[v])
                        = fa[v].d * NineDeviations(evals[v])

\* a volume with an all-zero voxel and an anisotropic one
C6_Witness ==
    /\ pcM = "done"
    /\ Len(evals) = 2
    /\ evals[1] = <<0, 0, 0>>
    /\ evals[2][1] > evals[2][3]
    /\ fa[1] = [t |-> "rat", n |-> 0, d |-> 1]
    /\ fa[2].t = "sqrt"

----------------------------------------------------------------------------
(* Claims about tensor.__init__ and WLS_fit, checked under Spec. *)

ExplicitMask == maskShape # <<>>

\* C2: a tensor constructed with an explicit mask whose shape differs from
\* the first three dimensions of the signal volume fails with the ValueError
\* of the shape check, and that before WLS_fit is entered: no design matrix
\* is built, no logarithm taken, no voxel solved, no attribute set.
C2_MaskShapeMismatchFails ==
    (/\ entry = "tensor"
     /\ ExplicitMask
     /\ maskShape # SpatialOf(dims)
     /\ pc # "init") =>
        /\ pc = "error"
        /\ err = "ValueError: Data image and mask MUST have same 3D volume shape!"
        /\ ~designBuilt
        /\ logArgs = {}
        /\ fitData = <<>>
        /\ eig_decomp = <<>>
        /\ iLoop = 0
        /\ volume = <<>>
        /\ attrs = {}

\* the constructor has failed on a mask of another shape with as many voxels
\* as the volume
C2_Witness ==
    /\ entry = "tensor"
    /\ ExplicitMask
    /\ maskShape # SpatialOf(dims)
    /\ Prod(maskShape) = Prod(SpatialOf(dims))
    /\ \E v \in 1..Len(maskArg) : maskArg[v] > 0
    /\ pc = "error"

\* C3: for every input form, np.log is never applied to a value <= 0 (every
\* such value was replaced by 1 before).
C3_NoLogOfNonPositive == \A x \in logArgs : x > 0

\* C4: the i-th solve takes its weights and its right-hand side, both of
\* length g, from voxel i only: every cell of the voxel list it reads lies
\* in row i, so the signals of the other voxels cannot change its result.
C4_VoxelSolvedFromOwnSignals ==
    \A k \in 1..iLoop :
        /\ eig_decomp[k].w = fitData[k]
        /\ Len(eig_decomp[k].y) = NChan
        /\ \A cell \in eig_decomp[k].src : cell[1] = k

\* the voxels tensor.__init__ is to fit: mask value non-zero with an explicit
\* mask, b0 signal not below thresh without one
ToBeFitted(v) ==
    IF ExplicitMask THEN maskArg[v] # 0 ELSE ~(data0[v][1] < thresh)

\* the eigen result of a voxel solved from its own signal values
OwnResult(v) ==
    [w |-> [c \in 1..NChan |-> IF data0[v][c] <= 0 THEN 1 ELSE data0[v][c]],
     y |-> [c \in 1..NChan |-> IF data0[v][c] <= 0 THEN 1 ELSE data0[v][c]],
     src |-> {<<Cardinality({u \in 1..v : ToBeFitted(u)}), c>> : c \in 1..NChan}]

\* C7: tensor.__init__ (the mask, if given, of the volume's shape) fits
\* exactly the included voxels, and the reassembled volume holds each fitted
\* voxel's result at the voxel's own coordinate and zeros at every excluded
\* voxel.
C7_FitsExactlyIncluded ==
    (/\ entry = "tensor"
     /\ ExplicitMask => maskShape = SpatialOf(dims)
     /\ pc \in {"done", "error"}) =>
        /\ pc = "done"
        /\ Len(eig_decomp) = Cardinality({v \in 1..Len(data0) : ToBeFitted(v)})
        /\ Len(volume) = Len(data0)
        /\ \A v \in 1..Len(data0) :
              volume[v] = IF ToBeFitted(v) THEN OwnResult(v) ELSE ZeroRow

\* C10: every element of the caller's signal volume has the value it had
\* before the call (the model never writes the caller's mask).
C10_InputsUnchanged == data = data0

====
